---- MODULE Spec2Model ----
(***************************************************************************)
(* Model of plugins/modules/system/chezmoi.py: one invocation of the       *)
(* chezmoi module (run_module -> Chezmoi.ensure_* -> Chezmoi.run).         *)
(*                                                                         *)
(* The chezmoi binary and the file system are the environment: every      *)
(* external command returns an exit code and an output chosen by the       *)
(* environment.  fail_json and exit_json end the process, as they do in    *)
(* AnsibleModule; run_command(check_rc=True) calls fail_json on a non-zero *)
(* exit code.  An uncaught Python exception ends the process without a     *)
(* result.                                                                 *)
(***************************************************************************)
EXTENDS Integers, Sequences, FiniteSets, TLC

(* ----------------------------- bounds ---------------------------------- *)

\* lines of doctor output (the output split at "\n")
MaxLines == 2

\* whitespace-separated tokens on one line of doctor output
MaxTokens == 3

\* lines of status output (the output split at "\n")
MaxStatusLines == 3

(* --------------------------- value domains ----------------------------- *)

None == "None"

States == {"present", "absent", "latest"}

\* tokens of doctor output: "error" is the result the gate looks for,
\* "ok" stands for every other token (header words, check names, text)
Tokens == {"ok", "error"}

Lines == UNION {[1..n -> Tokens] : n \in 0..MaxTokens}

\* out.split("\n") of a text has at least one element
DoctorOutputs == UNION {[1..n -> Lines] : n \in 1..MaxLines}

StatusLines == {"", " M .bashrc"}

StatusOutputs == UNION {[1..n -> StatusLines] : n \in 1..MaxStatusLines}

ExitCodes == {0, 1}

\* the config option: a dict (items in insertion order) or None
Configs ==
    { [given |-> FALSE, items |-> <<>>],
      [given |-> TRUE,  items |-> <<>>],
      [given |-> TRUE,  items |-> << <<"a", "1">>, <<"b", "2">> >>],
      [given |-> TRUE,  items |-> << <<"b", "2">>, <<"a", "1">> >>] }

Paths == {None, "/alt"}

\* the config directory: missing, existing, or impossible to create
CfgDirStates == {"missing", "exists", "blocked"}

VARIABLES
    state,        \* module.params['state']
    config,       \* self._config
    purge,        \* self._purge
    dest,         \* self._dest
    source,       \* self._source
    config_path,  \* self._config_path
    source_dir,   \* file system: the source directory exists as a directory
    config_dir,   \* file system: state of <home>/.config/chezmoi/
    config_file,  \* file system: content of the transient config file, or None
    skip_init,    \* argument of run()
    update,       \* argument of run()
    pc,           \* position of the invocation
    calls,        \* external commands issued so far, in order
    rows,         \* result column of the rows in doctor's output (<<>> before doctor)
    changes,      \* the list _status returned
    msgs,         \* msgs of run()
    outcome,      \* what the invocation reported to its caller
    peer,         \* a second invocation for the same home directory, while it is not running
    doctor_out    \* the output doctor is about to print, <<>> when the environment is still free to choose it

vars == <<state, config, purge, dest, source, config_path, source_dir,
          config_dir, config_file, skip_init, update, pc, calls, rows,
          changes, msgs, outcome, peer, doctor_out>>

params == <<state, config, purge, dest, source>>

(* ------------------------- pure helper functions ----------------------- *)

\* bool(self._config): None and the empty dict are both falsy
Truthy(c) == c.given /\ Len(c.items) > 0

\* position of a key in sorted order
KeyRank(k) == CASE k = "a" -> 1 [] k = "b" -> 2 [] OTHER -> 3

RECURSIVE InsertSorted(_, _)
InsertSorted(item, s) ==
    IF s = <<>> THEN <<item>>
    ELSE IF KeyRank(item[1]) <= KeyRank(Head(s)[1]) THEN <<item>> \o s
    ELSE <<Head(s)>> \o InsertSorted(item, Tail(s))

\* the items of a dict in sorted key order (sort_keys=True)
RECURSIVE SortKeys(_)
SortKeys(items) ==
    IF items = <<>> THEN <<>>
    ELSE InsertSorted(Head(items), SortKeys(Tail(items)))

RECURSIVE DumpItems(_)
DumpItems(items) ==
    IF items = <<>> THEN ""
    ELSE "\"" \o Head(items)[1] \o "\": \"" \o Head(items)[2] \o "\""
         \o (IF Len(items) > 1 THEN ", " ELSE "") \o DumpItems(Tail(items))

\* json.dumps(self._config, sort_keys=True)
json_dumps(c) == "{" \o DumpItems(SortKeys(c.items)) \o "}"

\* hashlib.sha256(...).hexdigest(): a function of the content only
hexdigest(content) == "sha256(" \o content \o ")"

\* file_path of _create_module_defined_tmp_config
tmp_file_path(c) == ".config/chezmoi/ansible." \o hexdigest(json_dumps(c)) \o ".json"

\* seeded fault: the flag of the transient config is left out
global_flags_without_config ==
    <<"--no-tty", "--force">>
    \o (IF dest # None THEN <<"--destination", dest>> ELSE <<>>)
    \o (IF source # None THEN <<"--source", source>> ELSE <<>>)

\* Chezmoi.global_flags
global_flags ==
    <<"--no-tty", "--force">>
    \o (IF dest # None THEN <<"--destination", dest>> ELSE <<>>)
    \o (IF source # None THEN <<"--source", source>> ELSE <<>>)
    \o (IF config_path # None THEN <<"--config", config_path>> ELSE <<>>)

\* one external command as run_command sees it
Call(args, rc) ==
    [cmd |-> args, flags |-> global_flags, rc |-> rc,
     config_exists |-> (config_file # None)]

\* seeded fault: the test of the source directory inverted
source_present_inverted == ~source_dir

\* Chezmoi._source_present
source_present == source_dir

(* ----------------------- parsing of doctor output ---------------------- *)

\* the tokens of the text in order, each with the number of its line
RECURSIVE Flat(_, _)
Flat(lines, i) ==
    IF i > Len(lines) THEN <<>>
    ELSE [j \in 1..Len(lines[i]) |-> [tok |-> lines[i][j], line |-> i]]
         \o Flat(lines, i + 1)

\* re.findall('(\S+)\s+(\S+)\s+(.*)$', out, re.MULTILINE) from token k on.
\* \s+ also matches line breaks, so the first two groups are the next two
\* tokens wherever they stand; the second \s+ needs at least one blank or
\* line break after the second token; (.*)$ is the rest of the line on
\* which the third token stands (empty when there is no third token), and
\* the scan resumes after that line.
RECURSIVE FindAll(_, _, _)
FindAll(F, k, nlines) ==
    IF k + 1 > Len(F) THEN <<>>
    ELSE IF k + 1 = Len(F) /\ F[k + 1].line = nlines THEN <<>>
    ELSE IF k + 2 > Len(F)
         THEN << [result |-> F[k].tok, check |-> F[k + 1].tok, msg |-> <<>>] >>
    ELSE LET l3   == F[k + 2].line
             last == CHOOSE i \in (k + 2)..Len(F) :
                        /\ F[i].line = l3
                        /\ (i = Len(F) \/ F[i + 1].line # l3)
         IN  << [result |-> F[k].tok, check |-> F[k + 1].tok,
                 msg |-> [i \in 1..(last - k - 1) |-> F[k + 1 + i].tok]] >>
             \o FindAll(F, last + 1, nlines)

\* rows of _doctor
ParseRows(out) == FindAll(Flat(out, 1), 1, Len(out))

\* rows[1:]
Rest(rs) == IF rs = <<>> THEN <<>> ELSE Tail(rs)

\* seeded fault: the loop compares the result with a word doctor never prints
FailedChecks_never(rs) == {}

\* seeded fault: the loop runs over rows instead of rows[1:]
FailedChecks_with_header(rs) ==
    {rs[i].check : i \in {j \in 1..Len(rs) : rs[j].result = "error"}}

\* keys of the dict 'failed' built by the loop of _doctor
FailedChecks(rs) ==
    {Rest(rs)[i].check : i \in {j \in 1..Len(Rest(rs)) : Rest(rs)[j].result = "error"}}

\* the result column of the parsed rows
ResultColumn(rs) == [i \in 1..Len(rs) |-> rs[i].result]

\* list(filter(lambda i: bool(i), out.split('\n')))
NonEmpty(lines) == SelectSeq(lines, LAMBDA l : l # "")

(* ------------------------------ results -------------------------------- *)

NoOutcome ==
    [kind |-> "none", changed |-> FALSE, failed |-> FALSE, message |-> "",
     error |-> "", checks |-> {}]

\* fail_json as run_command(check_rc=True) calls it
FailedCommand ==
    [kind |-> "fail_json", changed |-> FALSE, failed |-> TRUE,
     message |-> "stderr", error |-> "rc", checks |-> {}]

\* fail_json(msg='Failed to parse chezmoi doctor output.')
FailedParse ==
    [kind |-> "fail_json", changed |-> FALSE, failed |-> TRUE,
     message |-> "Failed to parse chezmoi doctor output.",
     error |-> "parse", checks |-> {}]

\* fail_json(changed=False, msg=result['failed'])
FailedHealth(failed) ==
    [kind |-> "fail_json", changed |-> FALSE, failed |-> TRUE,
     message |-> "", error |-> "health", checks |-> failed]

\* an exception nobody catches: the process dies without a result
Uncaught(e) ==
    [kind |-> "exception", changed |-> FALSE, failed |-> FALSE,
     message |-> "", error |-> e, checks |-> {}]

\* ''.join(msgs).strip(): every text appended to msgs ends with one blank,
\* msgs holds the texts without it
RECURSIVE JoinStrip(_)
JoinStrip(ms) ==
    IF ms = <<>> THEN ""
    ELSE IF Len(ms) = 1 THEN ms[1]
    ELSE ms[1] \o " " \o JoinStrip(Tail(ms))

MsgUpdated == "Updated source to VCS latest and applied changes."

MsgMade(n) == "Made " \o ToString(n) \o " change(s) to match target state."

MsgPurged == "Purged chezmoi state and configuration."

\* seeded fault: check_rc is not honoured
Aborts_never(check_rc, rc) == FALSE

\* run_command: a non-zero exit code is fatal iff check_rc is set
Aborts(check_rc, rc) == check_rc /\ rc # 0

(* --------------------------- initial states ---------------------------- *)

\* the part of the state that belongs to one invocation, as a record
RunState(id, p) ==
    [id |-> id, pc |-> p, config_path |-> None, skip_init |-> FALSE,
     update |-> FALSE, calls |-> <<>>, rows |-> <<>>, changes |-> <<>>,
     msgs |-> <<>>, outcome |-> NoOutcome]

\* no second invocation
NoPeer == RunState(2, "off")

\* The state after Chezmoi.__init__: the parameters of the task, the file
\* system as the invocation finds it, and nothing done yet.  A file can
\* only be at the content-addressed path if its directory exists; what an
\* earlier run left there is the JSON text of the same config, or an empty
\* file when its write was cut short.
Init ==
    /\ state \in States
    /\ config \in Configs
    /\ purge \in BOOLEAN
    /\ dest \in Paths
    /\ source \in Paths
    /\ config_path = None
    /\ source_dir \in BOOLEAN
    /\ config_dir \in CfgDirStates
    /\ config_file \in
          IF config_dir = "exists" /\ Truthy(config)
          THEN {None, json_dumps(config), ""} ELSE {None}
    /\ skip_init = FALSE
    /\ update = FALSE
    /\ pc = "run_module"
    /\ calls = <<>>
    /\ rows = <<>>
    /\ changes = <<>>
    /\ msgs = <<>>
    /\ outcome = NoOutcome
    /\ peer = NoPeer
    /\ doctor_out = <<>>

(* ------------------------------ actions -------------------------------- *)

\* fail_json / an uncaught exception: the process ends here
Stop(o) ==
    /\ pc' = "done"
    /\ outcome' = o

\* ensure_present as run_module calls it: run(skip_init=_source_present(), update=False)
ensure_present ==
    /\ pc = "run_module"
    /\ state = "present"
    /\ skip_init' = source_present
    /\ update' = FALSE
    /\ pc' = "create"
    /\ UNCHANGED <<params, peer, doctor_out, config_path, source_dir, config_dir, config_file,
                   calls, rows, changes, msgs, outcome>>

\* ensure_latest as run_module calls it: run(update=True), skip_init left at its default
ensure_latest ==
    /\ pc = "run_module"
    /\ state = "latest"
    /\ skip_init' = FALSE
    /\ update' = TRUE
    /\ pc' = "create"
    /\ UNCHANGED <<params, peer, doctor_out, config_path, source_dir, config_dir, config_file,
                   calls, rows, changes, msgs, outcome>>

\* seeded fault: state absent is handled like state present
ensure_absent_runs ==
    /\ pc = "run_module"
    /\ state = "absent"
    /\ skip_init' = source_present
    /\ update' = FALSE
    /\ pc' = "create"
    /\ UNCHANGED <<params, peer, doctor_out, config_path, source_dir,
                   config_dir, config_file, calls, rows, changes, msgs, outcome>>

\* state absent: neither branch of run_module is taken, check_mode is
\* false, run_module returns without a result
ensure_absent ==
    /\ pc = "run_module"
    /\ state = "absent"
    /\ pc' = "done"
    /\ UNCHANGED <<params, peer, doctor_out, config_path, source_dir, config_dir, config_file,
                   skip_init, update, calls, rows, changes, msgs, outcome>>

\* seeded fault: run ignores skip_init
AfterCreate_always_init == "init"

\* the step after the transient config is in place: 'if not skip_init'
AfterCreate == IF skip_init THEN "doctor" ELSE "init"

\* seeded fault: the test for the file's existence is inverted
_create_writes_if_exists ==
    /\ pc = "create"
    /\ IF ~Truthy(config)
       THEN /\ pc' = AfterCreate
            /\ UNCHANGED <<config_path, config_dir, config_file, outcome>>
       ELSE IF config_dir = "blocked"
       THEN /\ Stop(Uncaught("OSError"))
            /\ UNCHANGED <<config_path, config_dir, config_file>>
       ELSE /\ config_dir' = "exists"
            /\ config_file' = IF config_file # None
                              THEN json_dumps(config) ELSE config_file
            /\ config_path' = tmp_file_path(config)
            /\ pc' = AfterCreate
            /\ UNCHANGED outcome
    /\ UNCHANGED <<params, peer, doctor_out, source_dir, skip_init, update,
                   calls, rows, changes, msgs>>

\* seeded fault: the file is written without the test for its existence
_create_always_writes ==
    /\ pc = "create"
    /\ IF ~Truthy(config)
       THEN /\ pc' = AfterCreate
            /\ UNCHANGED <<config_path, config_dir, config_file, outcome>>
       ELSE IF config_dir = "blocked"
       THEN /\ Stop(Uncaught("OSError"))
            /\ UNCHANGED <<config_path, config_dir, config_file>>
       ELSE /\ config_dir' = "exists"
            /\ config_file' = json_dumps(config)
            /\ config_path' = tmp_file_path(config)
            /\ pc' = AfterCreate
            /\ UNCHANGED outcome
    /\ UNCHANGED <<params, peer, doctor_out, source_dir, skip_init, update,
                   calls, rows, changes, msgs>>

\* _create_module_defined_tmp_config
_create_module_defined_tmp_config ==
    /\ pc = "create"
    /\ IF ~Truthy(config)
       THEN /\ pc' = AfterCreate
            /\ UNCHANGED <<config_path, config_dir, config_file, outcome>>
       ELSE IF config_dir = "blocked"
       THEN \* os.makedirs raises an OSError other than EEXIST
            /\ Stop(Uncaught("OSError"))
            /\ UNCHANGED <<config_path, config_dir, config_file>>
       ELSE /\ config_dir' = "exists"
            /\ config_file' = IF config_file = None
                              THEN json_dumps(config) ELSE config_file
            /\ config_path' = tmp_file_path(config)
            /\ pc' = AfterCreate
            /\ UNCHANGED outcome
    /\ UNCHANGED <<params, peer, doctor_out, source_dir, skip_init, update, calls, rows,
                   changes, msgs>>

\* _init: _exec(['init', repo], check_rc=True)
_init ==
    /\ pc = "init"
    /\ \E rc \in ExitCodes :
          /\ calls' = Append(calls, Call("init", rc))
          /\ IF Aborts(TRUE, rc)
             THEN Stop(FailedCommand)
             ELSE pc' = "doctor" /\ UNCHANGED outcome
    /\ UNCHANGED <<params, peer, doctor_out, config_path, source_dir, config_dir, config_file,
                   skip_init, update, rows, changes, msgs>>

\* seeded fault: doctor is run like the commands that must succeed
doctor_check_rc_true == TRUE

\* check_rc as run passes it to _doctor
doctor_check_rc == FALSE

\* the step after the health check passed: 'if update'
AfterDoctor == IF update THEN "update" ELSE "status"

\* what _doctor makes of one output: the parsed rows (their result column)
\* and the keys of 'failed'
DoctorReport(out) ==
    LET rs == ParseRows(out)
    IN  [rows |-> ResultColumn(rs), failed |-> FailedChecks(rs)]

\* the reports of all outputs doctor can print
DoctorReports == {DoctorReport(out) : out \in DoctorOutputs}

\* the reports doctor's next output can lead to
PendingReports ==
    IF doctor_out = <<>> THEN DoctorReports ELSE {DoctorReport(doctor_out)}

\* result = self._doctor(check_rc=False) and the test of result['failed'] in run
_doctor ==
    /\ pc = "doctor"
    /\ \E report \in PendingReports, rc \in ExitCodes :
          /\ calls' = Append(calls, Call("doctor", rc))
          /\ IF Aborts(doctor_check_rc, rc)
             THEN Stop(FailedCommand)
             ELSE IF ~(Len(report.rows) > 0)
             THEN Stop(FailedParse)
             ELSE IF Cardinality(report.failed) > 0
             THEN Stop(FailedHealth(report.failed))
             ELSE pc' = AfterDoctor /\ UNCHANGED outcome
          /\ rows' = report.rows
    /\ doctor_out' = <<>>
    /\ UNCHANGED <<params, peer, config_path, source_dir, config_dir, config_file,
                   skip_init, update, changes, msgs>>

\* _update: _exec(['update'], check_rc=True), then the message of run
_update ==
    /\ pc = "update"
    /\ \E rc \in ExitCodes :
          /\ calls' = Append(calls, Call("update", rc))
          /\ IF Aborts(TRUE, rc)
             THEN Stop(FailedCommand) /\ UNCHANGED msgs
             ELSE /\ msgs' = Append(msgs, MsgUpdated)
                  /\ pc' = "cleanup"
                  /\ UNCHANGED outcome
    /\ UNCHANGED <<params, peer, doctor_out, config_path, source_dir, config_dir, config_file,
                   skip_init, update, rows, changes>>

\* the lists _status can return
StatusLists == {NonEmpty(out) : out \in StatusOutputs}

\* _status as _apply calls it, and 'if len(status) > 0' of _apply
_status ==
    /\ pc = "status"
    /\ \E status \in StatusLists, rc \in ExitCodes :
          /\ calls' = Append(calls, Call("status", rc))
          /\ IF Aborts(TRUE, rc)
             THEN Stop(FailedCommand) /\ UNCHANGED changes
             ELSE /\ changes' = status
                  /\ pc' = IF Len(status) > 0 THEN "apply" ELSE "cleanup"
                  /\ UNCHANGED outcome
    /\ UNCHANGED <<params, peer, doctor_out, config_path, source_dir, config_dir, config_file,
                   skip_init, update, rows, msgs>>

\* the apply command of _apply, then 'if changes' of run
_apply ==
    /\ pc = "apply"
    /\ \E rc \in ExitCodes :
          /\ calls' = Append(calls, Call("apply", rc))
          /\ IF Aborts(TRUE, rc)
             THEN Stop(FailedCommand) /\ UNCHANGED msgs
             ELSE /\ msgs' = Append(msgs, MsgMade(Len(changes)))
                  /\ pc' = "cleanup"
                  /\ UNCHANGED outcome
    /\ UNCHANGED <<params, peer, doctor_out, config_path, source_dir, config_dir, config_file,
                   skip_init, update, rows, changes>>

\* _remove_module_defined_tmp_config: os.path.exists(None) raises TypeError
_remove_module_defined_tmp_config ==
    /\ pc = "cleanup"
    /\ IF config_path = None
       THEN Stop(Uncaught("TypeError")) /\ UNCHANGED config_file
       ELSE /\ config_file' = None
            /\ pc' = "purge"
            /\ UNCHANGED outcome
    /\ UNCHANGED <<params, peer, doctor_out, config_path, source_dir, config_dir, skip_init,
                   update, calls, rows, changes, msgs>>

\* _purge_if_enabled, then 'if purged' of run
_purge_if_enabled ==
    /\ pc = "purge"
    /\ IF purge
       THEN \E rc \in ExitCodes :
               /\ calls' = Append(calls, Call("purge", rc))
               /\ IF Aborts(TRUE, rc)
                  THEN Stop(FailedCommand) /\ UNCHANGED msgs
                  ELSE /\ msgs' = Append(msgs, MsgPurged)
                       /\ pc' = "return"
                       /\ UNCHANGED outcome
       ELSE /\ pc' = "return"
            /\ UNCHANGED <<calls, msgs, outcome>>
    /\ UNCHANGED <<params, peer, doctor_out, config_path, source_dir, config_dir, config_file,
                   skip_init, update, rows, changes>>

\* seeded fault: changed is reported only when run collected a message
exit_json_changed_if_msgs ==
    /\ pc = "return"
    /\ Stop([kind |-> "exit_json", changed |-> (msgs # <<>>), failed |-> FALSE,
             message |-> JoinStrip(msgs), error |-> "", checks |-> {}])
    /\ UNCHANGED <<params, peer, doctor_out, config_path, source_dir,
                   config_dir, config_file, skip_init, update, calls, rows,
                   changes, msgs>>

\* the dict run returns, handed to module.exit_json by run_module
exit_json ==
    /\ pc = "return"
    /\ Stop([kind |-> "exit_json", changed |-> TRUE, failed |-> FALSE,
             message |-> JoinStrip(msgs), error |-> "", checks |-> {}])
    /\ UNCHANGED <<params, peer, doctor_out, config_path, source_dir, config_dir, config_file,
                   skip_init, update, calls, rows, changes, msgs>>

Next ==
    \/ ensure_present
    \/ ensure_latest
    \/ ensure_absent
    \/ _create_module_defined_tmp_config
    \/ _init
    \/ _doctor
    \/ _update
    \/ _status
    \/ _apply
    \/ _remove_module_defined_tmp_config
    \/ _purge_if_enabled
    \/ exit_json

Spec == Init /\ [][Next]_vars

\* One invocation against a doctor whose output is fixed in advance: the
\* specification under which the parsing done by _doctor is checked for
\* every output text.
InitParse ==
    /\ state \in States
    /\ config = [given |-> TRUE, items |-> << <<"b", "2">>, <<"a", "1">> >>]
    /\ purge = FALSE
    /\ dest = None
    /\ source = None
    /\ config_path = None
    /\ source_dir = TRUE
    /\ config_dir = "exists"
    /\ config_file = None
    /\ skip_init = FALSE
    /\ update = FALSE
    /\ pc = "run_module"
    /\ calls = <<>>
    /\ rows = <<>>
    /\ changes = <<>>
    /\ msgs = <<>>
    /\ outcome = NoOutcome
    /\ peer = NoPeer
    /\ doctor_out \in DoctorOutputs

SpecParse == InitParse /\ [][Next]_vars

\* The operating system takes the processor from the running invocation
\* and gives it to the second one: the two exchange their own state, the
\* task parameters and the file system are common to both.
Switch ==
    /\ peer.pc \notin {"off", "done"}
    /\ peer' = [id |-> 3 - peer.id, pc |-> pc, config_path |-> config_path,
                skip_init |-> skip_init, update |-> update, calls |-> calls,
                rows |-> rows, changes |-> changes, msgs |-> msgs,
                outcome |-> outcome]
    /\ pc' = peer.pc
    /\ config_path' = peer.config_path
    /\ skip_init' = peer.skip_init
    /\ update' = peer.update
    /\ calls' = peer.calls
    /\ rows' = peer.rows
    /\ changes' = peer.changes
    /\ msgs' = peer.msgs
    /\ outcome' = peer.outcome
    /\ UNCHANGED <<params, doctor_out, source_dir, config_dir, config_file>>

\* Two invocations of the same task (same home directory, identical
\* config data) started together.
InitTwo ==
    /\ state \in States
    /\ config = [given |-> TRUE, items |-> << <<"b", "2">>, <<"a", "1">> >>]
    /\ purge = FALSE
    /\ dest = None
    /\ source = None
    /\ config_path = None
    /\ source_dir = TRUE
    /\ config_dir = "exists"
    /\ config_file = None
    /\ skip_init = FALSE
    /\ update = FALSE
    /\ pc = "run_module"
    /\ calls = <<>>
    /\ rows = <<>>
    /\ changes = <<>>
    /\ msgs = <<>>
    /\ outcome = NoOutcome
    /\ peer = RunState(2, "run_module")
    /\ doctor_out = <<>>

NextTwo == Next \/ Switch

SpecTwo == InitTwo /\ [][NextTwo]_vars

TypeOK ==
    /\ state \in States
    /\ pc \in {"run_module", "create", "init", "doctor", "update", "status",
               "apply", "cleanup", "purge", "return", "done"}
    /\ outcome.kind \in {"none", "exit_json", "fail_json", "exception"}

(* ------------------------ vocabulary of the claims --------------------- *)

\* the subcommands issued so far, in order
Cmds == [i \in 1..Len(calls) |-> calls[i].cmd]

Count(cmd) == Cardinality({i \in 1..Len(calls) : calls[i].cmd = cmd})

Issued(cmd) == Count(cmd) > 0

\* exit code of the (only) call of cmd; 0 when it was not issued
RcOf(cmd) ==
    IF Issued(cmd)
    THEN calls[CHOOSE i \in 1..Len(calls) : calls[i].cmd = cmd].rc ELSE 0

LastCmd == IF calls = <<>> THEN None ELSE calls[Len(calls)].cmd

\* some row of doctor's output has the result "error"
AnyErrorRow == \E i \in 1..Len(rows) : rows[i] = "error"

\* some row after the first one has the result "error"
ErrorRowAfterFirst == \E i \in 2..Len(rows) : rows[i] = "error"

\* doctor has run and the health check let the run go on
PassedHealthCheck == Issued("doctor") /\ rows # <<>> /\ ~ErrorRowAfterFirst

Terminated == pc = "done"

(* -------------------------------- C1 ----------------------------------- *)

\* C1 as stated: in a run of state present or latest, once doctor's parsed
\* output has a row whose result is "error" the run has ended as failed and
\* no status, apply, update or purge is ever issued.
C1_AsStated ==
    (state \in {"present", "latest"} /\ Issued("doctor") /\ AnyErrorRow)
    => /\ Terminated
       /\ outcome.kind = "fail_json" /\ outcome.failed
       /\ \A c \in {"status", "apply", "update", "purge"} : ~Issued(c)

\* C1 amended: the first parsed row is the header and is never looked at;
\* once a row after the first has the result "error" the run has ended as
\* failed and unchanged, and no status, apply, update or purge is ever issued.
C1_HealthCheckGate ==
    (state \in {"present", "latest"} /\ Issued("doctor") /\ ErrorRowAfterFirst)
    => /\ Terminated
       /\ outcome.kind = "fail_json" /\ outcome.failed /\ ~outcome.changed
       /\ outcome.error = "health"
       /\ LastCmd = "doctor"
       /\ \A c \in {"status", "apply", "update", "purge"} : ~Issued(c)

C1_Witness ==
    /\ Issued("doctor") /\ ErrorRowAfterFirst
    /\ Terminated /\ outcome.error = "health"

(* -------------------------------- C2 ----------------------------------- *)

\* C2: when a run that created a transient config file has terminated,
\* whatever its outcome, the file no longer exists.
C2_ConfigRemovedAtEnd ==
    (Terminated /\ config_path # None) => config_file = None

(* -------------------------------- C3 ----------------------------------- *)

\* the run got past the point where run() decides about init
PastInitDecision ==
    /\ pc \notin {"run_module", "create", "init"}
    /\ outcome.error # "OSError"

\* C3: for state present, if the source directory exists at the start, init
\* is never issued; if it does not, init is issued at most once, it is the
\* first command of every run that gets as far as issuing commands, and so
\* it comes before doctor.
C3_InitIffSourceAbsent ==
    state = "present" =>
       IF source_dir
       THEN ~Issued("init")
       ELSE /\ Count("init") <= 1
            /\ PastInitDecision => (Count("init") = 1 /\ Cmds[1] = "init")
            /\ \A i \in 1..Len(calls) :
                  Cmds[i] = "doctor" => \E j \in 1..(i - 1) : Cmds[j] = "init"

C3_Witness ==
    /\ state = "present" /\ ~source_dir
    /\ Len(calls) >= 2 /\ Cmds[1] = "init" /\ Cmds[2] = "doctor"

(* -------------------------------- C4 ----------------------------------- *)

\* what a run of state present issues up to and including doctor
PresentPrefix == IF source_dir THEN <<"doctor">> ELSE <<"init", "doctor">>

\* C4: a run of state latest issues the same commands up to doctor as a run
\* of state present would, so it skips init when the source directory
\* exists, and after doctor it issues update where present issues status
\* and apply.
C4_LatestSameStepsAsPresent ==
    (state = "latest" /\ Issued("doctor"))
    => /\ SubSeq(Cmds, 1, Len(PresentPrefix)) = PresentPrefix
       /\ ~Issued("status") /\ ~Issued("apply")

(* -------------------------------- C5 ----------------------------------- *)

\* C5: a run of state latest never issues status or apply, issues update as
\* soon as the health check has passed, and, when update (and purge, if
\* requested) exited zero, ends with a result that has changed=true and a
\* message containing "Updated source to VCS latest and applied changes."
C5_LatestUpdatesAndReportsChanged ==
    state = "latest" =>
       /\ ~Issued("status") /\ ~Issued("apply")
       /\ PassedHealthCheck => (pc = "update" \/ Count("update") = 1)
       /\ (Terminated /\ Issued("update") /\ RcOf("update") = 0 /\ RcOf("purge") = 0)
          => /\ outcome.kind = "exit_json"
             /\ outcome.changed
             /\ outcome.message \in {MsgUpdated, JoinStrip(<<MsgUpdated, MsgPurged>>)}

(* -------------------------------- C6 ----------------------------------- *)

\* C6: in a run of state present that passed the health check, status is
\* issued exactly once and before any apply; apply is issued exactly once
\* if status returned N >= 1 non-empty lines and not at all if N = 0; and
\* for N >= 1, when the commands exited zero, the run returns changed=true
\* with the message "Made N change(s) to match target state." (followed by
\* the purge message when purge is requested).
C6_PresentStatusThenApply ==
    (state = "present" /\ PassedHealthCheck) =>
       /\ Count("status") <= 1
       /\ pc # "status" => Count("status") = 1
       /\ \A i \in 1..Len(calls) :
             Cmds[i] = "apply" => \E j \in 1..(i - 1) : Cmds[j] = "status"
       /\ (Issued("status") /\ RcOf("status") = 0 /\ pc # "apply")
          => Count("apply") = (IF Len(changes) >= 1 THEN 1 ELSE 0)
       /\ (Terminated /\ Len(changes) >= 1 /\ RcOf("status") = 0
             /\ RcOf("apply") = 0 /\ RcOf("purge") = 0)
          => /\ outcome.kind = "exit_json"
             /\ outcome.changed
             /\ outcome.message =
                   JoinStrip(<<MsgMade(Len(changes))>>
                             \o (IF purge THEN <<MsgPurged>> ELSE <<>>))

(* -------------------------------- C7 ----------------------------------- *)

\* C7: purge is never issued when it is not requested; when it is requested
\* and the run passed the health check (and its reconciliation commands
\* exited zero), purge is issued exactly once, after the transient config
\* is gone, and no command follows it.
C7_PurgeOnceAndLast ==
    /\ ~purge => ~Issued("purge")
    /\ \A i \in 1..Len(calls) :
          Cmds[i] = "purge" => (i = Len(calls) /\ ~calls[i].config_exists)
    /\ (purge /\ PassedHealthCheck /\ Terminated /\ RcOf("status") = 0
          /\ RcOf("apply") = 0 /\ RcOf("update") = 0)
       => Count("purge") = 1

(* -------------------------------- C8 ----------------------------------- *)

\* C8 as stated: when the run aborts on the health check, none of init,
\* apply, update, purge has been issued.
C8_AsStated ==
    outcome.error = "health"
    => \A c \in {"init", "apply", "update", "purge"} : ~Issued(c)

\* C8 amended: when the run aborts on the health check, doctor is its last
\* command and no status, apply, update or purge has been issued; init has
\* been issued (and exited zero) exactly when the run does not skip it,
\* because init comes before doctor.
C8_AbortBeforeReconcile ==
    outcome.error = "health"
    => /\ Terminated
       /\ Cmds = (IF skip_init THEN <<"doctor">> ELSE <<"init", "doctor">>)
       /\ RcOf("init") = 0

C8_Witness ==
    /\ outcome.error = "health"
    /\ Cmds = <<"init", "doctor">>

(* -------------------------------- C9 ----------------------------------- *)

\* the commands run with check_rc=True
Required == {"init", "status", "apply", "update", "purge"}

\* C9: a required command that exited non-zero is the last command of the
\* run, and the run has ended with a failed, unchanged outcome.
C9_NonZeroExitAborts ==
    \A i \in 1..Len(calls) :
       (Cmds[i] \in Required /\ calls[i].rc # 0)
       => /\ i = Len(calls)
          /\ Terminated
          /\ outcome.kind = "fail_json"
          /\ outcome.failed /\ ~outcome.changed

C9_Witness ==
    /\ Len(calls) >= 3
    /\ LastCmd \in Required
    /\ calls[Len(calls)].rc # 0
    /\ Terminated

(* -------------------------------- C10 ---------------------------------- *)

\* C10: what a run does after doctor is decided by the rows of doctor's
\* output alone, whatever doctor's exit code: no row is a parse failure, an
\* "error" row after the first is a health-check failure, anything else
\* lets the run go on to update or status.
C10_DoctorExitCodeIgnored ==
    \A i \in 1..Len(calls) :
       Cmds[i] = "doctor" =>
          /\ rows = <<>>
             => (i = Len(calls) /\ Terminated /\ outcome = FailedParse)
          /\ ErrorRowAfterFirst
             => (i = Len(calls) /\ Terminated /\ outcome.error = "health")
          /\ (rows # <<>> /\ ~ErrorRowAfterFirst)
             => /\ outcome.error \notin {"health", "parse"}
                /\ i = Len(calls) => (pc = AfterDoctor /\ outcome = NoOutcome)

C10_Witness ==
    /\ Issued("doctor") /\ RcOf("doctor") # 0
    /\ Issued("status") \/ Issued("update")

(* -------------------------------- C11 ---------------------------------- *)

\* C11: every run of state present or latest that completes successfully
\* returns changed=true and failed=false; this includes the present run in
\* which status reported no pending change: apply was not issued, and with
\* purge off the message is empty.
C11_SuccessAlwaysChanged ==
    (state \in {"present", "latest"} /\ outcome.kind = "exit_json")
    => /\ outcome.changed
       /\ ~outcome.failed
       /\ (state = "present" /\ changes = <<>>)
          => /\ ~Issued("apply")
             /\ ~purge => outcome.message = ""

C11_Witness ==
    /\ state = "present" /\ outcome.kind = "exit_json"
    /\ changes = <<>> /\ ~purge /\ ~Issued("apply")
    /\ outcome.changed /\ outcome.message = ""

(* -------------------------------- C12 ---------------------------------- *)

\* flag name is followed by value val somewhere in flags f
HasFlag(f, name, val) ==
    \E j \in 1..(Len(f) - 1) : f[j] = name /\ f[j + 1] = val

\* flag name does not occur in flags f
NoFlag(f, name) == \A j \in 1..Len(f) : f[j] # name

\* C12: every command issued carries --no-tty and --force, carries
\* --destination <dest> iff dest is set, --source <source> iff source is
\* set, and --config <path of the transient file> iff the run set up a
\* transient config file (the config is a non-empty dict).
C12_GlobalFlagsOnEveryCommand ==
    \A i \in 1..Len(calls) :
       LET f == calls[i].flags IN
       /\ Len(f) >= 2 /\ f[1] = "--no-tty" /\ f[2] = "--force"
       /\ IF dest # None THEN HasFlag(f, "--destination", dest)
                         ELSE NoFlag(f, "--destination")
       /\ IF source # None THEN HasFlag(f, "--source", source)
                           ELSE NoFlag(f, "--source")
       /\ IF Truthy(config) THEN HasFlag(f, "--config", tmp_file_path(config))
                            ELSE NoFlag(f, "--config")

C12_Witness ==
    /\ dest # None /\ source # None /\ Truthy(config)
    /\ Len(calls) >= 3
    /\ LastCmd = "apply"

(* -------------------------------- C13 ---------------------------------- *)

C14_CleanupNoOpWithoutConfig ==
    (state \in {"present", "latest"} /\ ~Truthy(config))
    => /\ outcome.kind # "exception"
       /\ (Terminated /\ PassedHealthCheck /\ RcOf("status") = 0
             /\ RcOf("apply") = 0 /\ RcOf("update") = 0 /\ RcOf("purge") = 0)
          => outcome.kind = "exit_json"

(* -------------------------------- C15 ---------------------------------- *)

\* the rows after the first whose result is "error"
ErrorRows(rs) == {i \in 2..Len(rs) : rs[i].result = "error"}

\* C15: when doctor's output yields no parsed row the run fails with the
\* message 'Failed to parse chezmoi doctor output.' and doctor stays its
\* last command; otherwise the first parsed row is skipped, the run fails
\* on the health check iff a later row has the result "error", the failed
\* checks are exactly the checks of those rows, and an output with a single
\* (header) row passes.
C15_DoctorParsing ==
    /\ [](outcome.error = "parse"
          => /\ Terminated /\ LastCmd = "doctor"
             /\ outcome.failed
             /\ outcome.message = "Failed to parse chezmoi doctor output.")
    /\ [][(pc = "doctor" /\ doctor_out # <<>>)
          => LET rs == ParseRows(doctor_out) IN
             IF Len(rs) = 0
             THEN pc' = "done" /\ outcome'.error = "parse"
             ELSE IF ErrorRows(rs) # {}
             THEN /\ pc' = "done"
                  /\ outcome'.error = "health"
                  /\ outcome'.checks = {rs[i].check : i \in ErrorRows(rs)}
             ELSE /\ pc' = AfterDoctor
                  /\ outcome' = NoOutcome]_vars

C15_Witness ==
    /\ Issued("doctor") /\ LastCmd = "doctor"
    /\ Len(rows) = 1 /\ rows[1] = "error"
    /\ pc = AfterDoctor /\ outcome = NoOutcome

(* -------------------------------- C16 ---------------------------------- *)

\* C16: when the create step runs with a non-empty config and a usable
\* config directory, a file already at the content-addressed path keeps its
\* content (nothing is written), a missing file is written with the
\* sorted-key JSON of the config, and in both cases the config path is set
\* and the run goes on.
C16_CreateIsIdempotent ==
    [][(pc = "create" /\ Truthy(config) /\ config_dir # "blocked")
       => /\ config_path' = tmp_file_path(config)
          /\ pc' \in {"init", "doctor"}
          /\ IF config_file # None
             THEN config_file' = config_file
             ELSE config_file' = "{\"a\": \"1\", \"b\": \"2\"}"]_vars

C16_Witness ==
    /\ config_path # None
    /\ config_file = ""
    /\ Issued("doctor")
    /\ HasFlag(calls[Len(calls)].flags, "--config", config_path)

(* -------------------------------- C17 ---------------------------------- *)

\* a reconciling command was issued with --config while the transient file
\* was not on disk
Dangling(cs) ==
    \E i \in 1..Len(cs) :
       /\ cs[i].cmd \in {"doctor", "status", "apply", "update"}
       /\ \E j \in 1..Len(cs[i].flags) : cs[i].flags[j] = "--config"
       /\ ~cs[i].config_exists

\* an invocation at position p, with commands cs and outcome o, has carried
\* out its cleanup step
Cleaned(p, cs, o) ==
    \/ p \in {"purge", "return"}
    \/ p = "done" /\ o.kind = "exit_json"
    \/ p = "done" /\ cs # <<>> /\ cs[Len(cs)].cmd = "purge"

\* C17: with two concurrent runs of the same task, a run issues doctor,
\* status, apply or update with --config pointing at a missing file only
\* after the other run's cleanup has deleted the shared file -- and that
\* does happen (C17_Witness).
C17_DanglingOnlyAfterPeerCleanup ==
    /\ Dangling(calls) => Cleaned(peer.pc, peer.calls, peer.outcome)
    /\ Dangling(peer.calls) => Cleaned(pc, calls, outcome)

C17_Witness ==
    /\ Dangling(calls)
    /\ Cleaned(peer.pc, peer.calls, peer.outcome)
    /\ config_file = None

(* -------------------------------- C18 ---------------------------------- *)

\* C18: in a single run, every command issued with --config <path> finds
\* the file at <path> on disk at the moment it is issued; this includes
\* purge.
C18_ConfigFileExistsWhenPassed ==
    \A i \in 1..Len(calls) :
       (\E j \in 1..Len(calls[i].flags) : calls[i].flags[j] = "--config")
       => calls[i].config_exists

(* -------------------------------- C19 ---------------------------------- *)

\* C19: an invocation that has ended has reported a result, by exit_json or
\* by fail_json; none ends without a result or by an uncaught exception.
C19_EndsWithAResult ==
    Terminated => outcome.kind \in {"exit_json", "fail_json"}

====
